---- MODULE Spec2Model ----
(***************************************************************************)
(* State-machine model of scripts/setup-supabase.py: a straight-line       *)
(* script that loads its configuration, probes the database, runs the      *)
(* *.sql files of supabase/migrations in sorted order (one connection per  *)
(* file), verifies three tables and prints a summary.                      *)
(*                                                                         *)
(* The script is run up to MaxRuns times in succession against the same    *)
(* environment, file system and database.  Strings that the script        *)
(* inspects (file names, the URL) are sequences of one-character strings.  *)
(* Database calls raise only psycopg2.Error; reading a file raises only    *)
(* subclasses of Exception.                                                *)
(***************************************************************************)
EXTENDS Integers, Sequences, FiniteSets, TLC

\* Number of successive invocations of the script.
MaxRuns == 2
\* Largest number of entries in supabase/migrations.
MaxFiles == 3
\* Largest number of failures of the environment (a connection that cannot
\* be opened or is lost, a query that fails, a file that cannot be read)
\* over all runs.  Failures caused by the SQL text itself are not counted.
MaxFaults == 1

(***************************************************************************)
(* Strings                                                                 *)
(***************************************************************************)
Range(s) == {s[i] : i \in 1..Len(s)}

Min(a, b) == IF a < b THEN a ELSE b

\* ord(c) for the characters used in file names and URLs.
CodePoint(c) ==
    CASE c = "." -> 46 [] c = "/" -> 47 [] c = "1" -> 49 [] c = "2" -> 50
      [] c = ":" -> 58 [] c = "a" -> 97 [] c = "b" -> 98 [] c = "d" -> 100
      [] c = "h" -> 104 [] c = "k" -> 107 [] c = "l" -> 108 [] c = "m" -> 109
      [] c = "q" -> 113 [] c = "s" -> 115 [] c = "0" -> 48

\* Python's a < b on str: the first differing character decides, a proper
\* prefix is smaller.
StrLess(a, b) ==
    \E i \in 1..(Min(Len(a), Len(b)) + 1) :
        /\ \A j \in 1..(i - 1) : a[j] = b[j]
        /\ \/ i > Len(a) /\ i <= Len(b)
           \/ i <= Len(a) /\ i <= Len(b) /\ CodePoint(a[i]) < CodePoint(b[i])

\* s.find(c), 1-based; 0 when c does not occur.
Find(s, c) ==
    IF \E i \in 1..Len(s) : s[i] = c
    THEN CHOOSE i \in 1..Len(s) : s[i] = c /\ \A j \in 1..(i - 1) : s[j] # c
    ELSE 0

EndsWith(s, suffix) ==
    /\ Len(s) >= Len(suffix)
    /\ SubSeq(s, Len(s) - Len(suffix) + 1, Len(s)) = suffix

(***************************************************************************)
(* urlparse(url).hostname and the project reference                        *)
(***************************************************************************)
Letters == {"a", "b", "d", "h", "k", "l", "m", "q", "s"}
SchemeChars == Letters \cup {"0", "1", "2", "."}

\* urlsplit: strip "scheme:" when the text before the first ":" is a scheme.
AfterScheme(url) ==
    LET i == Find(url, ":")
    IN  IF i > 1 /\ url[1] \in Letters /\ \A j \in 1..(i - 1) : url[j] \in SchemeChars
        THEN SubSeq(url, i + 1, Len(url))
        ELSE url

\* urlsplit: the network location follows "//" and ends at the next "/".
Netloc(url) ==
    LET r == AfterScheme(url)
    IN  IF Len(r) >= 2 /\ r[1] = "/" /\ r[2] = "/"
        THEN LET rest == SubSeq(r, 3, Len(r))
                 k == Find(rest, "/")
             IN  IF k = 0 THEN rest ELSE SubSeq(rest, 1, k - 1)
        ELSE <<>>

\* .hostname: the network location up to the port; None when empty.
Hostname(url) ==
    LET n == Netloc(url)
        k == Find(n, ":")
        h == IF k = 0 THEN n ELSE SubSeq(n, 1, k - 1)
    IN  [none |-> h = <<>>, val |-> h]

\* parsed.hostname.split('.')[0]
ProjectRef(host) ==
    LET k == Find(host, ".")
    IN  IF k = 0 THEN host ELSE SubSeq(host, 1, k - 1)

\* An environment variable: unset (os.getenv gives None) or a string.
Unset == [set |-> FALSE, val |-> <<>>]
Str(s) == [set |-> TRUE, val |-> s]

\* Variant: a test against None only, which lets "" through.
Truthy_NotNone(v) == v.set

\* Python truthiness of os.getenv(...): None and "" are false.
Truthy(v) == v.set /\ v.val # <<>>

UrlValues ==
    { Unset, Str(<<>>),
      Str(<<"h", ":", "/", "/", "a", ".", "b">>),
      Str(<<"h", ":", "/", "/", "a", "b", ":", "1", "/", "d">>),
      Str(<<"a", ".", "b">>),
      Str(<<"h", ":", "/", "/">>) }

KeyValues == { Unset, Str(<<>>), Str(<<"k">>) }

(***************************************************************************)
(* Migration directory                                                     *)
(***************************************************************************)
SqlSuffix == <<".", "s", "q", "l">>

\* Entries that may be present in supabase/migrations.
Candidates ==
    { <<"1", ".", "s", "q", "l">>,
      <<"1", "0", ".", "s", "q", "l">>,
      <<"2", ".", "s", "q", "l">>,
      <<"1", ".", "m", "d">> }

\* fnmatch(name, "*.sql")
MatchesSql(name) == EndsWith(name, SqlSuffix)

RECURSIVE InsertSorted(_, _)
InsertSorted(x, s) ==
    IF s = <<>> THEN <<x>>
    ELSE IF StrLess(x, Head(s)) THEN <<x>> \o s
    ELSE <<Head(s)>> \o InsertSorted(x, Tail(s))

\* Variant: the glob result is used in directory order.
SortedNames_DirectoryOrder(listing) == listing

RECURSIVE SortedNames(_)
\* sorted(...) of a listing given in directory order.
SortedNames(listing) ==
    IF listing = <<>> THEN <<>>
    ELSE InsertSorted(Head(listing), SortedNames(Tail(listing)))

\* The orders in which the directory may list a set of names.
Listings(names) ==
    { l \in [1..Cardinality(names) -> names] :
        \A i, j \in 1..Cardinality(names) : i # j => l[i] # l[j] }

\* migration_dir.glob("*.sql") for one directory order of the entries.
Glob(listing) == SelectSeq(listing, MatchesSql)

(***************************************************************************)
(* Database                                                                *)
(***************************************************************************)
tables_to_check == <<"users", "articles", "workers">>

Tables == Range(tables_to_check)

\* Texts a migration file may hold.
Sqls ==
    { [kind |-> "create_if_not_exists", tables |-> {"users"}],
      [kind |-> "create", tables |-> {"articles", "workers"}],
      [kind |-> "invalid", tables |-> {}] }

NotSql == [kind |-> "text", tables |-> {}]

\* Variant: IF NOT EXISTS is ignored, every CREATE TABLE is a plain one.
ExecSql_PlainCreate(sql, existing) ==
    IF sql.kind \in {"create", "create_if_not_exists"} /\ sql.tables \cap existing = {}
    THEN [ok |-> TRUE, tables |-> existing \cup sql.tables]
    ELSE [ok |-> FALSE, tables |-> existing]

\* The tables the database may hold before the first run.
InitialTables == { {}, {"users"}, {"articles", "workers"}, Tables }

\* cur.execute(sql): the batch runs in one transaction; it raises on invalid
\* SQL and on CREATE TABLE of an existing table, and then changes nothing.
ExecSql(sql, existing) ==
    CASE sql.kind = "create_if_not_exists" ->
            [ok |-> TRUE, tables |-> existing \cup sql.tables]
      [] sql.kind = "create" ->
            IF sql.tables \cap existing = {}
            THEN [ok |-> TRUE, tables |-> existing \cup sql.tables]
            ELSE [ok |-> FALSE, tables |-> existing]
      [] OTHER -> [ok |-> FALSE, tables |-> existing]

\* SELECT EXISTS (... WHERE table_name = %s)
TableExists(table, existing) == table \in existing

(***************************************************************************)
(* State                                                                   *)
(***************************************************************************)
VARIABLES
    \* the world the script runs in
    envFile,            \* ".env.local": "unread", "present" or "absent"
    environ,            \* the two variables of .env.local, once loaded
    dirState,           \* supabase/migrations: "unread", "missing", "present"
    dir,                \* entry name -> text of the entry
    db,                 \* tables of schema public (committed state)
    open,               \* connections opened and not closed
    \* the script's variables
    pc,
    project_ref,
    migration_files,
    idx,                \* position of the for loop in migration_files
    failed_migrations,
    missing_tables,
    tidx,               \* position of the for loop in tables_to_check
    conn,
    out,                \* what the final summary printed
    exitStatus,
    \* history
    run,                \* number of the current invocation
    connAttempts,       \* calls of psycopg2.connect in this run
    attempts,           \* files whose loop iteration has started, in order
    outcomes,           \* how each finished iteration ended, in order
    committed,          \* files committed in this run, in order
    verifyTried,        \* the verification step was entered in this run
    fatal,              \* the precondition that aborted this run, or "none"
    faults,             \* failures of the environment so far, over all runs
    prev                \* result of the previous run

worldVars == <<envFile, environ, dirState, dir>>
loopVars == <<migration_files, idx, failed_migrations>>
verifyVars == <<missing_tables, tidx>>
migHist == <<attempts, outcomes, committed>>

vars == <<envFile, environ, dirState, dir, db, open, pc, project_ref,
          migration_files, idx, failed_migrations, missing_tables, tidx, conn,
          out, exitStatus, run, connAttempts, attempts, outcomes, committed,
          verifyTried, fatal, faults, prev>>

NoConn == [op |-> "none", n |-> 0, who |-> 0]
NoOutput ==
    [banner |-> "none",
     failedLine |-> [printed |-> FALSE, names |-> <<>>],
     missingLine |-> [printed |-> FALSE, names |-> <<>>]]
NoResult == [status |-> -1, failed |-> <<>>, missing |-> <<>>, banner |-> "none"]

\* The result of the run that just ended.
Result ==
    [status |-> exitStatus, failed |-> failed_migrations,
     missing |-> missing_tables, banner |-> out.banner]

Init ==
    /\ envFile = "unread"
    /\ environ = [read |-> FALSE, url |-> Unset, key |-> Unset]
    /\ dirState = "unread"
    /\ dir = <<>>
    /\ db \in InitialTables
    /\ open = {}
    /\ pc = "env"
    /\ project_ref = <<>>
    /\ migration_files = <<>>
    /\ idx = 1
    /\ failed_migrations = <<>>
    /\ missing_tables = <<>>
    /\ tidx = 1
    /\ conn = NoConn
    /\ out = NoOutput
    /\ exitStatus = -1
    /\ run = 1
    /\ connAttempts = 0
    /\ attempts = <<>>
    /\ outcomes = <<>>
    /\ committed = <<>>
    /\ verifyTried = FALSE
    /\ fatal = "none"
    /\ faults = 0
    /\ prev = NoResult

\* Whether a call into the environment succeeds: it may fail while the
\* failure budget lasts.
Fates == IF faults < MaxFaults THEN {TRUE, FALSE} ELSE {TRUE}

\* sys.exit(1) after the error message of a fatal precondition.
Abort(why) ==
    /\ pc' = "exited"
    /\ exitStatus' = 1
    /\ fatal' = why

(***************************************************************************)
(* Configuration                                                           *)
(***************************************************************************)
\* env_path.exists()
CheckEnvFile ==
    /\ pc = "env"
    /\ \E e \in (IF envFile = "unread" THEN {"present", "absent"} ELSE {envFile}) :
        /\ envFile' = e
        /\ IF e = "absent"
           THEN Abort("env_file")
           ELSE pc' = "vars" /\ UNCHANGED <<exitStatus, fatal>>
    /\ UNCHANGED <<environ, dirState, dir, db, open, project_ref, loopVars,
                   verifyVars, conn, out, run, connAttempts, migHist,
                   verifyTried, faults, prev>>

\* load_dotenv, os.getenv and the check of the two required variables
LoadVariables ==
    /\ pc = "vars"
    /\ \E u \in (IF environ.read THEN {environ.url} ELSE UrlValues),
          k \in (IF environ.read THEN {environ.key} ELSE KeyValues) :
        /\ environ' = [read |-> TRUE, url |-> u, key |-> k]
        /\ IF ~Truthy(u) \/ ~Truthy(k)
           THEN Abort("variables")
           ELSE pc' = "parse" /\ UNCHANGED <<exitStatus, fatal>>
    /\ UNCHANGED <<envFile, dirState, dir, db, open, project_ref, loopVars,
                   verifyVars, conn, out, run, connAttempts, migHist,
                   verifyTried, faults, prev>>

\* urlparse(supabase_url).hostname.split('.')[0] inside try / bare except
ParseUrl ==
    /\ pc = "parse"
    /\ LET host == Hostname(environ.url.val)
       IN  IF host.none
           THEN Abort("url") /\ UNCHANGED project_ref
           ELSE /\ project_ref' = ProjectRef(host.val)
                /\ pc' = "probe"
                /\ UNCHANGED <<exitStatus, fatal>>
    /\ UNCHANGED <<worldVars, db, open, loopVars, verifyVars, conn, out, run,
                   connAttempts, migHist, verifyTried, faults, prev>>

(***************************************************************************)
(* Connectivity probe                                                      *)
(***************************************************************************)
\* The connection object made by the n-th psycopg2.connect of a run; `who` is
\* the position in migration_files of the loop iteration that made it (0 for
\* the probe and the verification).
NewConn(op, n, who) == [op |-> op, n |-> n, who |-> who]

\* Variant: conn.close() is left out.
CloseConn_Forgotten(conns, c) == conns

\* conn.close()
CloseConn(conns, c) == conns \ {c}

\* Variant: every connection is made twice (a setup connection first).
CountConnect_Twice(n) == n + 2

\* One call of psycopg2.connect.
CountConnect(n) == n + 1

ProbeConnect ==
    /\ pc = "probe"
    /\ connAttempts' = CountConnect(connAttempts)
    /\ \E ok \in Fates :
        IF ok
        THEN /\ conn' = NewConn("probe", connAttempts', 0)
             /\ open' = open \cup {conn'}
             /\ pc' = "probe_close"
             /\ UNCHANGED <<exitStatus, fatal, faults>>
        ELSE /\ Abort("probe")
             /\ faults' = faults + 1
             /\ UNCHANGED <<conn, open>>
    /\ UNCHANGED <<worldVars, db, project_ref, loopVars, verifyVars, out, run,
                   migHist, verifyTried, prev>>

ProbeClose ==
    /\ pc = "probe_close"
    /\ open' = CloseConn(open, conn)
    /\ pc' = "dir"
    /\ UNCHANGED <<worldVars, db, project_ref, loopVars, verifyVars, conn, out,
                   exitStatus, run, connAttempts, migHist, verifyTried, fatal,
                   faults, prev>>

(***************************************************************************)
(* Migration discovery                                                     *)
(***************************************************************************)
\* The texts a set of directory entries may hold.
DirContents(names) ==
    { f \in [names -> Sqls \cup {NotSql}] :
        \A n \in names : MatchesSql(n) <=> f[n] \in Sqls }

\* sorted(migration_dir.glob("*.sql"))
MigrationFiles(listing) == SortedNames(Glob(listing))

FindMigrations ==
    /\ pc = "dir"
    /\ \E st \in (IF dirState = "unread" THEN {"missing", "present"} ELSE {dirState}) :
        /\ dirState' = st
        /\ IF st = "missing"
           THEN /\ Abort("directory")
                /\ UNCHANGED <<dir, loopVars>>
           ELSE \E names \in (IF dirState = "unread"
                              THEN {s \in SUBSET Candidates : Cardinality(s) <= MaxFiles}
                              ELSE {DOMAIN dir}) :
                \E d \in (IF dirState = "unread" THEN DirContents(names) ELSE {dir}) :
                \E listing \in Listings(names) :
                    /\ dir' = d
                    /\ migration_files' = MigrationFiles(listing)
                    /\ IF migration_files' = <<>>
                       THEN /\ Abort("no_files")
                            /\ UNCHANGED <<idx, failed_migrations>>
                       ELSE /\ failed_migrations' = <<>>
                            /\ idx' = 1
                            /\ pc' = "loop"
                            /\ UNCHANGED <<exitStatus, fatal>>
    /\ UNCHANGED <<envFile, environ, db, open, project_ref, verifyVars, conn,
                   out, run, connAttempts, migHist, verifyTried, faults, prev>>

(***************************************************************************)
(* Migration loop                                                          *)
(***************************************************************************)
\* Variant: a handler that keeps only the latest failure.
RecordFailure_KeepLast(failed, filename) == <<filename>>

\* Both except branches of the loop body: failed_migrations.append(filename)
RecordFailure(failed, filename) == Append(failed, filename)

\* `continue`, and the end of the loop body: the for loop takes the next file.
NextFile(i) == i + 1

filename == migration_files[idx]

\* for migration_file in migration_files: ... open(migration_file).read()
MigrationRead ==
    /\ pc = "loop"
    /\ idx <= Len(migration_files)
    /\ attempts' = Append(attempts, filename)
    /\ \E readable \in Fates :
        IF readable
        THEN /\ pc' = "mig_connect"
             /\ UNCHANGED <<idx, failed_migrations, outcomes, faults>>
        ELSE /\ failed_migrations' = RecordFailure(failed_migrations, filename)
             /\ outcomes' = Append(outcomes, "read_error")
             /\ idx' = NextFile(idx)
             /\ faults' = faults + 1
             /\ pc' = "loop"
    /\ UNCHANGED <<worldVars, db, open, project_ref, migration_files,
                   verifyVars, conn, out, exitStatus, run, connAttempts,
                   committed, verifyTried, fatal, prev>>

\* conn = psycopg2.connect(...) of the loop body
MigrationConnect ==
    /\ pc = "mig_connect"
    /\ connAttempts' = CountConnect(connAttempts)
    /\ \E ok \in Fates :
        IF ok
        THEN /\ conn' = NewConn("migration", connAttempts', idx)
             /\ open' = open \cup {conn'}
             /\ pc' = "mig_exec"
             /\ UNCHANGED <<idx, failed_migrations, outcomes, faults>>
        ELSE /\ failed_migrations' = RecordFailure(failed_migrations, filename)
             /\ outcomes' = Append(outcomes, "connect_error")
             /\ idx' = NextFile(idx)
             /\ faults' = faults + 1
             /\ pc' = "loop"
             /\ UNCHANGED <<conn, open>>
    /\ UNCHANGED <<worldVars, db, project_ref, migration_files, verifyVars,
                   out, exitStatus, run, attempts, committed, verifyTried,
                   fatal, prev>>

\* with conn.cursor() as cur: cur.execute(sql); conn.commit()
\* `lost` is a failure of the connection during the two calls.  When either
\* call raises, conn.close() is skipped and the connection stays open.
MigrationExecute ==
    /\ pc = "mig_exec"
    /\ \E lost \in {~ok : ok \in Fates} :
        LET r == ExecSql(dir[filename], db)
        IN  IF ~lost /\ r.ok
            THEN /\ db' = r.tables
                 /\ committed' = Append(committed, filename)
                 /\ pc' = "mig_close"
                 /\ UNCHANGED <<idx, failed_migrations, outcomes, faults>>
            ELSE /\ failed_migrations' = RecordFailure(failed_migrations, filename)
                 /\ outcomes' = Append(outcomes, "execute_error")
                 /\ idx' = NextFile(idx)
                 /\ faults' = (IF lost THEN faults + 1 ELSE faults)
                 /\ pc' = "loop"
                 /\ UNCHANGED <<db, committed>>
    /\ UNCHANGED <<worldVars, open, project_ref, migration_files, verifyVars,
                   conn, out, exitStatus, run, connAttempts, attempts,
                   verifyTried, fatal, prev>>

\* conn.close() and the success message of the loop body
MigrationClose ==
    /\ pc = "mig_close"
    /\ open' = CloseConn(open, conn)
    /\ outcomes' = Append(outcomes, "ok")
    /\ idx' = NextFile(idx)
    /\ pc' = "loop"
    /\ UNCHANGED <<worldVars, db, project_ref, migration_files,
                   failed_migrations, verifyVars, conn, out, exitStatus, run,
                   connAttempts, attempts, committed, verifyTried, fatal,
                   faults, prev>>

(***************************************************************************)
(* Table verification                                                      *)
(***************************************************************************)
\* The loop is exhausted: missing_tables = [] and conn = psycopg2.connect(...)
\* inside try / except psycopg2.Error.
VerifyConnect ==
    /\ pc = "loop"
    /\ idx > Len(migration_files)
    /\ missing_tables' = <<>>
    /\ tidx' = 1
    /\ verifyTried' = TRUE
    /\ connAttempts' = CountConnect(connAttempts)
    /\ \E ok \in Fates :
        IF ok
        THEN /\ conn' = NewConn("verify", connAttempts', 0)
             /\ open' = open \cup {conn'}
             /\ pc' = "verify"
             /\ UNCHANGED faults
        ELSE /\ pc' = "summary"
             /\ faults' = faults + 1
             /\ UNCHANGED <<conn, open>>
    /\ UNCHANGED <<worldVars, db, project_ref, loopVars, out, exitStatus, run,
                   migHist, fatal, prev>>

\* Variant: the test of `exists` is inverted.
RecordTable_Inverted(missing, table, exists) ==
    IF exists THEN Append(missing, table) ELSE missing

\* if exists: ... else: missing_tables.append(table)
RecordTable(missing, table, exists) ==
    IF exists THEN missing ELSE Append(missing, table)

\* One iteration of `for table in tables_to_check`.  When the query raises,
\* control leaves the try block: the remaining tables are not queried and
\* conn.close() is skipped.
VerifyTable ==
    /\ pc = "verify"
    /\ tidx <= Len(tables_to_check)
    /\ \E raised \in {~ok : ok \in Fates} :
        IF raised
        THEN /\ pc' = "summary"
             /\ faults' = faults + 1
             /\ UNCHANGED <<missing_tables, tidx>>
        ELSE /\ missing_tables' =
                    RecordTable(missing_tables, tables_to_check[tidx],
                                TableExists(tables_to_check[tidx], db))
             /\ tidx' = tidx + 1
             /\ UNCHANGED <<pc, faults>>
    /\ UNCHANGED <<worldVars, db, open, project_ref, loopVars, conn, out,
                   exitStatus, run, connAttempts, migHist, verifyTried, fatal,
                   prev>>

\* conn.close() after the table loop
VerifyClose ==
    /\ pc = "verify"
    /\ tidx > Len(tables_to_check)
    /\ open' = CloseConn(open, conn)
    /\ pc' = "summary"
    /\ UNCHANGED <<worldVars, db, project_ref, loopVars, verifyVars, conn, out,
                   exitStatus, run, connAttempts, migHist, verifyTried, fatal,
                   faults, prev>>

(***************************************************************************)
(* Final summary                                                           *)
(***************************************************************************)
\* Variant: `or` in place of `and` in the test of the two lists.
SummaryOutput_Or(missing, failed) ==
    IF missing = <<>> \/ failed = <<>>
    THEN [banner |-> "success",
          failedLine |-> [printed |-> FALSE, names |-> <<>>],
          missingLine |-> [printed |-> FALSE, names |-> <<>>]]
    ELSE [banner |-> "error",
          failedLine |-> [printed |-> TRUE, names |-> failed],
          missingLine |-> [printed |-> TRUE, names |-> missing]]

\* if not missing_tables and not failed_migrations: ... else: ...
SummaryOutput(missing, failed) ==
    IF missing = <<>> /\ failed = <<>>
    THEN [banner |-> "success",
          failedLine |-> [printed |-> FALSE, names |-> <<>>],
          missingLine |-> [printed |-> FALSE, names |-> <<>>]]
    ELSE [banner |-> "error",
          failedLine |-> IF failed # <<>>
                         THEN [printed |-> TRUE, names |-> failed]
                         ELSE [printed |-> FALSE, names |-> <<>>],
          missingLine |-> IF missing # <<>>
                          THEN [printed |-> TRUE, names |-> missing]
                          ELSE [printed |-> FALSE, names |-> <<>>]]

\* Variant: a non-zero status when something failed or is missing.
FinalStatus_Strict(missing, failed) ==
    IF missing = <<>> /\ failed = <<>> THEN 0 ELSE 1

\* Status of the process when the script has run to its last statement:
\* there is no sys.exit after the summary, whatever the two lists hold.
FinalStatus(missing, failed) == 0

\* The summary is the last statement: the interpreter then exits normally.
PrintSummary ==
    /\ pc = "summary"
    /\ out' = SummaryOutput(missing_tables, failed_migrations)
    /\ pc' = "exited"
    /\ exitStatus' = FinalStatus(missing_tables, failed_migrations)
    /\ UNCHANGED <<worldVars, db, open, project_ref, loopVars, verifyVars,
                   conn, run, connAttempts, migHist, verifyTried, fatal,
                   faults, prev>>

(***************************************************************************)
(* Running the script again                                                *)
(***************************************************************************)
\* A new process: fresh script variables, no connection of the old process
\* survives; environment, files and database are as the last run left them.
RunAgain ==
    /\ pc = "exited"
    /\ run < MaxRuns
    /\ prev' = Result
    /\ run' = run + 1
    /\ pc' = "env"
    /\ open' = {}
    /\ project_ref' = <<>>
    /\ migration_files' = <<>>
    /\ idx' = 1
    /\ failed_migrations' = <<>>
    /\ missing_tables' = <<>>
    /\ tidx' = 1
    /\ conn' = NoConn
    /\ out' = NoOutput
    /\ exitStatus' = -1
    /\ connAttempts' = 0
    /\ attempts' = <<>>
    /\ outcomes' = <<>>
    /\ committed' = <<>>
    /\ verifyTried' = FALSE
    /\ fatal' = "none"
    /\ UNCHANGED <<worldVars, db, faults>>

\* The statements of the script.
Step ==
    \/ CheckEnvFile
    \/ LoadVariables
    \/ ParseUrl
    \/ ProbeConnect
    \/ ProbeClose
    \/ FindMigrations
    \/ MigrationRead
    \/ MigrationConnect
    \/ MigrationExecute
    \/ MigrationClose
    \/ VerifyConnect
    \/ VerifyTable
    \/ VerifyClose
    \/ PrintSummary

Next == Step \/ RunAgain

Spec == Init /\ [][Next]_vars

(***************************************************************************)
(* Properties                                                              *)
(***************************************************************************)
SqlFiles == {n \in DOMAIN dir : MatchesSql(n)}

Raised == {"read_error", "connect_error", "execute_error"}

RECURSIVE PickUpTo(_, _, _, _)
\* The files among the first k finished attempts whose outcome is in S.
PickUpTo(att, outc, S, k) ==
    IF k = 0 THEN <<>>
    ELSE LET r == PickUpTo(att, outc, S, k - 1)
         IN  IF outc[k] \in S THEN Append(r, att[k]) ELSE r

NoDuplicates(s) == \A i, j \in 1..Len(s) : i # j => s[i] # s[j]

\* The run got past the migration loop.
LoopDone == verifyTried

Finished == pc = "exited" /\ exitStatus = 0

\* C1: the *.sql files of the directory are attempted in ascending order of
\* file name, one at a time (an attempt has ended before the next starts),
\* each at most once, and when the loop is over every one of them has been
\* attempted and has ended, whatever the earlier outcomes were.
C1_SortedOnce ==
    /\ \A i, j \in 1..Len(attempts) : i < j => StrLess(attempts[i], attempts[j])
    /\ Range(attempts) \subseteq SqlFiles
    /\ Len(attempts) - Len(outcomes) \in {0, 1}
    /\ LoopDone => /\ Range(attempts) = SqlFiles
                   /\ Len(attempts) = Cardinality(SqlFiles)
                   /\ Len(outcomes) = Len(attempts)

\* "10.sql" ran before "2.sql" although "10.sql" failed.
C1_Witness ==
    /\ LoopDone
    /\ attempts = << <<"1", "0", ".", "s", "q", "l">>, <<"2", ".", "s", "q", "l">> >>
    /\ outcomes[1] \in Raised

\* C2: the failed list holds exactly the files whose attempt raised, in attempt
\* order and without duplicates; the files that succeeded are committed once
\* each and what they created is still in the database; and the summary is
\* only reached through table verification, after every file was attempted.
C2_FailuresRecorded ==
    /\ failed_migrations = PickUpTo(attempts, outcomes, Raised, Len(outcomes))
    /\ NoDuplicates(failed_migrations)
    /\ committed = PickUpTo(attempts, outcomes, {"ok"}, Len(outcomes))
                      \o (IF pc = "mig_close" THEN <<filename>> ELSE <<>>)
    /\ NoDuplicates(committed)
    /\ \A i \in 1..Len(committed) : dir[committed[i]].tables \subseteq db
    /\ (pc = "summary" \/ Finished) =>
            /\ verifyTried
            /\ Len(outcomes) = Len(migration_files)
            /\ Range(failed_migrations) \cup Range(committed) = SqlFiles

\* The first file succeeded, the second raised, the third succeeded after it,
\* and the run went on to the summary.
C2_Witness ==
    /\ pc = "summary"
    /\ Len(outcomes) = 3
    /\ outcomes[1] = "ok"
    /\ outcomes[2] \in Raised
    /\ outcomes[3] = "ok"
    /\ failed_migrations = <<attempts[2]>>

\* The tables of tables_to_check that the database lacks, in that order.
MissingInDb == SelectSeq(tables_to_check, LAMBDA t : t \notin db)

\* C3 (as claimed): when a table is missing after the migrations, the summary
\* lists exactly the missing tables and prints no success banner, also when
\* the verification connection or one of its queries raised.
C3_MissingAlwaysReported ==
    (Finished /\ MissingInDb # <<>>) =>
        /\ out.banner # "success"
        /\ out.missingLine.printed
        /\ out.missingLine.names = MissingInDb

\* C4 (as claimed): when all three tables exist at verification time the
\* success banner is printed, for every combination of migration outcomes.
C4_AllTablesMeanSuccess ==
    (Finished /\ Tables \subseteq db) => out.banner = "success"

\* C4 (amended): when all three tables exist at verification time and no
\* migration attempt raised, the success banner is printed, also when the
\* verification connection or one of its queries raised.
C4_AllTablesNoFailureMeanSuccess ==
    (Finished /\ Tables \subseteq db /\ \A i \in 1..Len(outcomes) : outcomes[i] = "ok")
        => out.banner = "success"

\* All tables exist, three files ran without raising, the verification ran
\* to its end, and the success banner was printed.
C4_Witness ==
    /\ Finished
    /\ Tables \subseteq db
    /\ outcomes = <<"ok", "ok", "ok">>
    /\ tidx > Len(tables_to_check)
    /\ out.banner = "success"

\* C5: the summary prints the success banner iff both lists are empty and the
\* error banner otherwise, so exactly one banner; it prints the failed file
\* names exactly when the failed list is non-empty and the missing table names
\* exactly when the missing list is non-empty.  Nothing of it is printed
\* before the run reaches the summary.
C5_SummaryMatchesLists ==
    /\ Finished =>
        /\ out.banner \in {"success", "error"}
        /\ out.banner = "success" <=> (failed_migrations = <<>> /\ missing_tables = <<>>)
        /\ out.failedLine.printed <=> failed_migrations # <<>>
        /\ out.failedLine.printed => out.failedLine.names = failed_migrations
        /\ out.missingLine.printed <=> missing_tables # <<>>
        /\ out.missingLine.printed => out.missingLine.names = missing_tables
    /\ ~Finished => out = NoOutput

\* The error banner with failed files but no missing table.
C5_Witness ==
    /\ Finished
    /\ out.banner = "error"
    /\ failed_migrations # <<>>
    /\ missing_tables = <<>>
    /\ ~out.missingLine.printed

\* What the environment file, its variables and the directory are known to be.
ConfigBad ==
    \/ envFile = "absent"
    \/ /\ environ.read
       /\ \/ ~(environ.url.set /\ environ.url.val # <<>>)
          \/ ~(environ.key.set /\ environ.key.val # <<>>)
          \/ Hostname(environ.url.val).none

DirBad ==
    \/ dirState = "missing"
    \/ dirState = "present" /\ SqlFiles = {}

\* C6: a fatal precondition ends the run at once with status 1.  With a bad
\* configuration (no environment file, a variable unset or empty, a URL
\* without hostname) no connection is ever attempted; after a failed probe,
\* with the directory missing or without *.sql file, no migration is attempted
\* or committed, nothing is verified and no summary is printed.
C6_FatalAborts ==
    /\ ConfigBad => connAttempts = 0 /\ open = {}
    /\ (ConfigBad \/ DirBad \/ fatal = "probe") =>
            /\ attempts = <<>>
            /\ committed = <<>>
            /\ ~verifyTried
            /\ out = NoOutput
            /\ pc \in {"env", "vars", "parse", "probe", "probe_close", "dir", "exited"}
            /\ pc = "exited" => exitStatus = 1
    /\ fatal # "none" => pc = "exited" /\ exitStatus = 1
    /\ fatal = "probe" => connAttempts = 1 /\ open = {}
    /\ (pc = "exited" /\ fatal = "none") => ~(ConfigBad \/ DirBad)

\* The probe succeeded and the directory holds an entry, but none matches
\* *.sql: the run ended with status 1.
C6_Witness ==
    /\ pc = "exited"
    /\ fatal = "no_files"
    /\ DOMAIN dir # {}
    /\ connAttempts = 1
    /\ exitStatus = 1

\* An upper bound on the statements the run still has to execute.
Remaining ==
    LET perFile == 4
        afterLoop == 6
        loopAt(i) == afterLoop + perFile * (Len(migration_files) + 1 - i)
        atDir == afterLoop + perFile * Cardinality(Candidates) + 1
    IN  CASE pc = "exited" -> 0
          [] pc = "summary" -> 1
          [] pc = "verify" -> 2 + (Len(tables_to_check) + 1 - tidx)
          [] pc = "loop" -> loopAt(idx)
          [] pc = "mig_connect" -> loopAt(idx) - 1
          [] pc = "mig_exec" -> loopAt(idx) - 2
          [] pc = "mig_close" -> loopAt(idx) - 3
          [] pc = "dir" -> atDir
          [] pc = "probe_close" -> atDir + 1
          [] pc = "probe" -> atDir + 2
          [] pc = "parse" -> atDir + 3
          [] pc = "vars" -> atDir + 4
          [] pc = "env" -> atDir + 5

PreconditionFailed == ConfigBad \/ DirBad \/ fatal = "probe"

\* The run is at a statement that can be executed: every label has a
\* statement, and the two loops are inside their sequences.
AtStatement ==
    /\ pc \in {"env", "vars", "parse", "probe", "probe_close", "dir", "loop",
               "mig_connect", "mig_exec", "mig_close", "verify", "summary"}
    /\ pc = "loop" => idx \in 1..(Len(migration_files) + 1)
    /\ pc \in {"mig_connect", "mig_exec", "mig_close"} => idx \in 1..Len(migration_files)
    /\ pc = "verify" => tidx \in 1..(Len(tables_to_check) + 1)

C7_ExitState ==
    /\ pc = "exited" =>
        /\ exitStatus \in {0, 1}
        /\ exitStatus = 1 <=> PreconditionFailed
        /\ exitStatus = 0 => out.banner # "none" /\ verifyTried
    /\ pc # "exited" =>
        /\ exitStatus = -1
        /\ AtStatement

\* C7: the run ends with status 1 exactly when a fatal precondition failed;
\* otherwise it ends with status 0 and has printed the summary, also when
\* migrations failed, tables are missing or the verification raised.  A run
\* that has not ended always has a next statement, and every statement brings
\* the run closer to its end, so every run ends.
C7_ExitStatus ==
    /\ []C7_ExitState
    /\ [][pc # "exited" => (Remaining' < Remaining /\ Remaining' >= 0)]_vars

\* Status 0 after a failed migration, a verification query that raised and
\* with tables missing.
C7_Witness ==
    /\ pc = "exited"
    /\ exitStatus = 0
    /\ failed_migrations # <<>>
    /\ MissingInDb # <<>>
    /\ verifyTried /\ tidx = 2

Idempotent(d) ==
    \A n \in DOMAIN d : MatchesSql(n) => d[n].kind = "create_if_not_exists"

\* C8: when every migration only adds tables that do not exist yet and no
\* connection, query or file read has failed, a run ends with the same exit
\* status, failed list, missing list and banner as the run before it.
C8_SecondRunSame ==
    (/\ run >= 2
     /\ pc = "exited"
     /\ prev.status = 0
     /\ faults = 0
     /\ Idempotent(dir)) => Result = prev

\* A second run over two idempotent files that create only `users`: both
\* runs report the other two tables missing.
C8_Witness ==
    /\ run = 2
    /\ pc = "exited"
    /\ prev.status = 0
    /\ faults = 0
    /\ Idempotent(dir)
    /\ Len(committed) = 2
    /\ db = {"users"}
    /\ prev.missing = <<"articles", "workers">>
    /\ out.banner = "error"

\* The connection an operation is working on.
InUse(c) == c = conn /\ pc \in {"probe_close", "mig_exec", "mig_close", "verify"}

\* The connection of a loop iteration whose execute or commit raised.
LeakedByMigration(c) ==
    /\ c.op = "migration"
    /\ c.who \in 1..Len(outcomes)
    /\ outcomes[c.who] = "execute_error"

\* The verification connection after one of its queries raised.
LeakedByVerification(c) ==
    /\ c.op = "verify"
    /\ pc \in {"summary", "exited"}
    /\ tidx <= Len(tables_to_check)

\* Nothing has raised in this run so far.
ErrorFree ==
    /\ fatal = "none"
    /\ \A i \in 1..Len(outcomes) : outcomes[i] = "ok"
    /\ (pc \in {"summary", "exited"} /\ verifyTried) => tidx > Len(tables_to_check)

\* C9 (as claimed): an operation that does not raise closes its connection
\* before the next is opened, so an error-free run has at most one open
\* connection and none at the summary; the only connections left open are
\* those of migrations whose execution raised.
C9_OnlyMigrationsLeak ==
    /\ \A c \in open : InUse(c) \/ LeakedByMigration(c)
    /\ ErrorFree => /\ Cardinality(open) <= 1
                    /\ pc \in {"summary", "exited"} => open = {}

\* C9 (amended): as C9, but the connections left open are those of
\* migrations whose execution raised and the verification connection when a
\* verification query raised.
C9_LeaksOnlyAfterRaise ==
    /\ \A c \in open : InUse(c) \/ LeakedByMigration(c) \/ LeakedByVerification(c)
    /\ ErrorFree => /\ Cardinality(open) <= 1
                    /\ pc \in {"summary", "exited"} => open = {}

\* At the summary the connections of a failed migration and of the
\* verification are both open, while that of a migration that succeeded in
\* between is closed.
C9_Witness ==
    /\ pc = "summary"
    /\ outcomes = <<"execute_error", "ok">>
    /\ Cardinality(open) = 2
    /\ \E c \in open : LeakedByVerification(c)
    /\ \E c \in open : LeakedByMigration(c)

ReadErrors == Cardinality({i \in 1..Len(outcomes) : outcomes[i] = "read_error"})

\* C10 (as claimed): a run over N migration files makes N + 3 connection
\* attempts.
C10_ThreeExtraConnections ==
    Finished => connAttempts = Len(migration_files) + 3

\* C10 (amended): a run over N migration files makes one connection attempt
\* per file whose text could be read plus two more (probe, verification),
\* N + 2 when every file is read.
C10_TwoExtraConnections ==
    Finished => connAttempts = (Len(migration_files) - ReadErrors) + 2

\* Three files, one of which could not be read: four connection attempts.
C10_Witness ==
    /\ Finished
    /\ Len(migration_files) = 3
    /\ ReadErrors = 1
    /\ connAttempts = 4

====
